---------------------------- MODULE Spec2Model ----------------------------
(***************************************************************************)
(* Lateral-inhibition operators of src/model/inhibition_layer.py.          *)
(*                                                                         *)
(* One operator instance is constructed and then used: forward calls and   *)
(* optimizer steps alternate, one at a time (the layer is single-threaded).*)
(*                                                                         *)
(* Numbers.  The layer computes in float32; the model computes exactly.    *)
(* Kernel taps and activations are integers, and the result of the matrix  *)
(* inversion is the exact rational adj(M)/det(M), kept as a numerator      *)
(* (matrix or vector) and a common denominator.  Rounding is not modelled. *)
(*                                                                         *)
(* Tensors.  An activation tensor [N, C, H, W] is modelled by the channel  *)
(* vector of one site (n, h, w); its length is the channel count C.        *)
(*                                                                         *)
(* The helpers of util.convolution, util.weight_initialization and         *)
(* util.ricker are not part of the sources at hand; they are modelled from *)
(* the contracts of spec.md, sections 3 and 6.                             *)
(***************************************************************************)
EXTENDS Integers, Sequences, FiniteSets, TLC

\* ------------------------------------------------------------------ bounds
MaxChannels == 2        \* channel counts 1..MaxChannels
MaxScope == 2           \* kernel lengths 1..MaxScope

\* ------------------------------------------------------- program constants
RecurrentSteps == 10    \* range(10) in RecurrentGaussianChannelFilter.forward

SingleShotVariants ==
    {"SingleShotInhibition", "SingleShotGaussianChannelFilter"}
RecurrentVariants == {"RecurrentGaussianChannelFilter"}
FrozenVariants ==
    {"ConvergedFrozenInhibition", "ConvergedGaussianChannelFilter"}
GaussianVariants ==
    {"SingleShotGaussianChannelFilter", "RecurrentGaussianChannelFilter",
     "ConvergedGaussianChannelFilter"}
Variants ==
    SingleShotVariants \cup RecurrentVariants \cup FrozenVariants
        \cup {"ConvergedInhibition", "ParametrizedInhibition"}

SupportedPads == {"circular", "zeros"}
Pads == SupportedPads \cup {"reflect"}
Scopes == 1..MaxScope
Channels == 1..MaxChannels
Widths == {1, 2}
Damps == {0, 1}
TapValues == {-1, 0, 1}
Kernels(len) == [1..len -> TapValues]
\* Every operator is linear in the activations: the 0/1 vectors hold a basis.
ActivationValues == {0, 1}
Tensors == UNION {[1..c -> ActivationValues] : c \in Channels}

\* ------------------------------------------------------------ linear algebra
Abs(a) == IF a < 0 THEN -a ELSE a

RECURSIVE SumTo(_, _)
SumTo(f, n) == IF n = 0 THEN 0 ELSE f[n] + SumTo(f, n - 1)

\* The sequence <<f[1], ..., f[n]>>, element by element.
RECURSIVE Tuple(_, _)
Tuple(f, n) == IF n = 0 THEN <<>> ELSE Append(Tuple(f, n - 1), f[n])

Dot(u, v) == SumTo([k \in 1..Len(u) |-> u[k] * v[k]], Len(u))
MatVec(M, v) == Tuple([r \in 1..Len(M) |-> Dot(M[r], v)], Len(M))
VecAdd(u, v) == Tuple([k \in 1..Len(u) |-> u[k] + v[k]], Len(u))
VecScale(a, v) == Tuple([k \in 1..Len(v) |-> a * v[k]], Len(v))
ZeroVec(n) == Tuple([k \in 1..n |-> 0], n)
Eye(n) ==
    Tuple([r \in 1..n |->
             Tuple([c \in 1..n |-> IF r = c THEN 1 ELSE 0], n)], n)
MatSub(A, B) ==
    Tuple([r \in 1..Len(A) |->
             Tuple([c \in 1..Len(A) |-> A[r][c] - B[r][c]], Len(A))], Len(A))

Drop(s, k) ==
    Tuple([j \in 1..(Len(s) - 1) |-> IF j < k THEN s[j] ELSE s[j + 1]],
          Len(s) - 1)
Minor(M, r, c) ==
    Tuple([a \in 1..(Len(M) - 1) |-> Drop(Drop(M, r)[a], c)], Len(M) - 1)
Sign(k) == IF k % 2 = 0 THEN 1 ELSE -1

RECURSIVE Det(_)
Det(M) ==
    IF Len(M) = 1 THEN M[1][1]
    ELSE SumTo([c \in 1..Len(M) |->
                  Sign(1 + c) * M[1][c] * Det(Minor(M, 1, c))], Len(M))

Cofactor(M, r, c) ==
    IF Len(M) = 1 THEN 1 ELSE Sign(r + c) * Det(Minor(M, r, c))
Adj(M) ==
    Tuple([r \in 1..Len(M) |->
             Tuple([c \in 1..Len(M) |-> Cofactor(M, c, r)], Len(M))], Len(M))

\* A matrix or vector with a common denominator: num / den.
Rat(num, den) == [num |-> num, den |-> den]

\* torch.Tensor.inverse: the exact inverse adj(M)/det(M); a singular matrix
\* raises (status "singular").
inverse(M) ==
    IF Det(M) = 0
    THEN [status |-> "singular", num |-> <<>>, den |-> 1]
    ELSE [status |-> "ok", num |-> Adj(M), den |-> Det(M)]

\* --------------------------------------------------------- kernel generators
Centre(len) == (len \div 2) + 1

\* Mexican-hat profile at distance d from the centre tap: a positive centre
\* of half-width `width`, a negative surround of the same width, zero beyond.
RickerTap(d, width) ==
    IF d < width THEN 1 ELSE IF d < 2 * width THEN -1 ELSE 0

\* Gaussian profile at distance d: a positive bump of half-width `width`.
GaussianTap(d, width) == IF d < width THEN 1 ELSE 0

\* weight_initialization.mexican_hat(scope, damping, width, self_connect)
mexican_hat(scope, damping, width, self_connect) ==
    Tuple([k \in 1..scope |->
             IF k = Centre(scope) /\ ~self_connect THEN 0
             ELSE damping * RickerTap(Abs(k - Centre(scope)), width)], scope)

\* weight_initialization.gaussian(scope, damping, width, self_connect)
gaussian(scope, damping, width, self_connect) ==
    Tuple([k \in 1..scope |->
             IF k = Centre(scope) /\ ~self_connect THEN 0
             ELSE damping * GaussianTap(Abs(k - Centre(scope)), width)], scope)

\* ricker.ricker(scope, width, damp, self_connect)
ricker(scope, width, damp, self_connect) ==
    Tuple([k \in 1..scope |->
             IF k = Centre(scope) /\ ~self_connect THEN 0
             ELSE damp * RickerTap(Abs(k - Centre(scope)), width)], scope)

\* ------------------------------------------------------- structured matrices
\* toeplitz1d_circular(kernel, m): tap k acts at channel offset k - centre,
\* offsets wrap modulo m; taps that wrap onto the same entry add up.
toeplitz1d_circular(kernel, m) ==
    Tuple([r \in 1..m |-> Tuple([c \in 1..m |->
        SumTo([k \in 1..Len(kernel) |->
                 IF (r - 1 + k - Centre(Len(kernel))) % m = c - 1
                 THEN kernel[k] ELSE 0], Len(kernel))], m)], m)

\* toeplitz1d_zero(kernel, m): taps that fall outside the channel range are
\* dropped.
toeplitz1d_zero(kernel, m) ==
    Tuple([r \in 1..m |-> Tuple([c \in 1..m |->
        IF c - r + Centre(Len(kernel)) \in 1..Len(kernel)
        THEN kernel[c - r + Centre(Len(kernel))] ELSE 0], m)], m)

\* convolve_3d_toeplitz(tpl, activations): the matrix applied along the
\* channel axis; a matrix whose size is not the channel count is a shape
\* error.  tpl is num/den, and so is the result.
convolve_3d_toeplitz(tpl, activations) ==
    IF Len(tpl.num) # Len(activations)
    THEN [status |-> "shape_error", num |-> <<>>, den |-> 1]
    ELSE [status |-> "ok", num |-> MatVec(tpl.num, activations),
          den |-> tpl.den]


\* ------------------------------------------------------------------- state
VARIABLES
    scope_global,   \* the module-level name `scope`: <<>> when it is not
                    \* defined (the module is imported), <<v>> when it is v
    phase,          \* "none", "ready" (constructed) or "failed" (__init__ raised)
    args,           \* the arguments of the constructor call
    error,          \* what __init__ raised, "" if nothing
    ctor_inversions,\* calls of inverse() made by __init__
    op,             \* the operator's attributes
    frame,          \* the running forward call of the recurrent variant
    call            \* the last finished forward call: its input and outcome

vars == <<scope_global, phase, args, error, ctor_inversions, op, frame, call>>

NoMatrix == Rat(<<>>, 1)

NoArgs ==
    [variant |-> "", scope |-> 1, width |-> 1, damp |-> 0, in_channels |-> 1,
     pad |-> "", self_connection |-> FALSE, learn_weights |-> FALSE]

NoOp ==
    [variant |-> "", scope |-> 1, width |-> 1, damp |-> 0, in_channels |-> 1,
     is_circular |-> FALSE, self_connection |-> FALSE,
     learn_weights |-> FALSE, inhibition_filter |-> <<>>,
     requires_grad |-> FALSE, tpl_inv |-> NoMatrix]

\* The frame of a running recurrent forward: x is the content of the caller's
\* tensor (the name activations), given its content when forward was entered,
\* y the content of the tensor that inhibited_activations names, and y_is_x
\* says that the two names denote one tensor.
NoFrame ==
    [pc |-> "idle", x |-> <<>>, given |-> <<>>, tpl |-> NoMatrix, y |-> <<>>,
     y_is_x |-> FALSE, i |-> 0]

NoCall ==
    [status |-> "none", x |-> <<>>, x_after |-> <<>>, alias |-> FALSE,
     num |-> <<>>, den |-> 1,
     inversions |-> 0, builds |-> 0, updates |-> 0]

\* The outcome of a forward call: status "ok" with the output num/den, or the
\* error raised; how often it built a Toeplitz matrix, inverted a matrix and
\* updated the iterate; and the operator's attributes after the call.  x is
\* the caller's tensor as passed and x_after its content when forward is left;
\* alias says that the returned tensor is the caller's tensor.  The forwards
\* without a loop return the result of + or of convolve_3d_toeplitz, which
\* allocate, and assign to no element of activations.
Outcome(status, x, num, den, inversions, builds, updates, self) ==
    [status |-> status, x |-> x, x_after |-> x, alias |-> FALSE,
     num |-> num, den |-> den,
     inversions |-> inversions, builds |-> builds, updates |-> updates,
     self |-> self]

CallOf(r) ==
    [status |-> r.status, x |-> r.x, x_after |-> r.x_after, alias |-> r.alias,
     num |-> r.num, den |-> r.den,
     inversions |-> r.inversions, builds |-> r.builds, updates |-> r.updates]

\* The interaction matrix of a kernel under the operator's boundary policy
\* (the if self.is_circular ... else ... of every forward and of the frozen
\* constructor).
Toeplitz(is_circular, kernel, in_channels) ==
    IF is_circular THEN toeplitz1d_circular(kernel, in_channels)
    ELSE toeplitz1d_zero(kernel, in_channels)

\* ------------------------------------------------------------- construction
\* The result of __init__: the error it raised ("" if none), the attributes
\* it set, and how often it called inverse().
Built(err, o, inversions) == [error |-> err, op |-> o, inversions |-> inversions]

Attributes(a, is_learned, kernel, requires_grad, tpl_inv) ==
    [variant |-> a.variant, scope |-> a.scope, width |-> a.width,
     damp |-> a.damp, in_channels |-> a.in_channels,
     is_circular |-> (a.pad = "circular"),
     self_connection |-> a.self_connection, learn_weights |-> is_learned,
     inhibition_filter |-> kernel, requires_grad |-> requires_grad,
     tpl_inv |-> tpl_inv]

\* _make_filter passes self_connect = True whatever self.self_connection is.
make_filter_SelfConnect(a, g) ==
    IF a.variant \in GaussianVariants
    THEN gaussian(g[1], a.damp, a.width, TRUE)
    ELSE mexican_hat(g[1], a.damp, a.width, TRUE)

\* _make_filter of the single-shot family and of the frozen family: the
\* kernel's length is the module-level `scope` (g = <<v>>), not self.scope.
make_filter(a, g) ==
    IF a.variant \in GaussianVariants
    THEN gaussian(g[1], a.damp, a.width, a.self_connection)
    ELSE mexican_hat(g[1], a.damp, a.width, a.self_connection)

\* SingleShotInhibition.__init__, and through super().__init__ its Gaussian
\* and recurrent subclasses, which pass learn_weights = False.
SingleShotInit(a, g) ==
    LET learn == IF a.variant = "SingleShotInhibition"
                 THEN a.learn_weights ELSE FALSE
    IN  IF a.pad \notin SupportedPads THEN Built("AssertionError", NoOp, 0)
        ELSE IF g = <<>> THEN Built("NameError", NoOp, 0)
        ELSE Built("", Attributes(a, learn, make_filter(a, g), learn,
                                  NoMatrix), 0)

\* ConvergedInhibition.__init__
ConvergedInit(a) ==
    IF a.pad \notin SupportedPads THEN Built("AssertionError", NoOp, 0)
    ELSE Built("", Attributes(a, FALSE,
                   mexican_hat(a.scope, a.damp, a.width, a.self_connection),
                   TRUE, NoMatrix), 0)

\* ConvergedFrozenInhibition.__init__ and its Gaussian subclass: the kernel
\* is a plain attribute (no parameter), the inverse is computed here.
FrozenInit(a, g) ==
    IF a.pad \notin SupportedPads THEN Built("AssertionError", NoOp, 0)
    ELSE IF g = <<>> THEN Built("NameError", NoOp, 0)
    ELSE LET kernel == make_filter(a, g)
             tpl == Toeplitz(a.pad = "circular", kernel, a.in_channels)
             inv == inverse(MatSub(Eye(a.in_channels), tpl))
         IN  IF inv.status # "ok" THEN Built("singular", NoOp, 1)
             ELSE Built("", Attributes(a, FALSE, kernel, FALSE,
                                       Rat(inv.num, inv.den)), 1)

\* The pad argument is not checked.
ParametrizedInit_NoAssert(a) ==
    Built("", Attributes(a, FALSE, <<>>, TRUE, NoMatrix), 0)

\* ParametrizedInhibition.__init__: no kernel; damp and width are the
\* parameters, both trainable.
ParametrizedInit(a) ==
    IF a.pad \notin SupportedPads THEN Built("AssertionError", NoOp, 0)
    ELSE Built("", Attributes(a, FALSE, <<>>, TRUE, NoMatrix), 0)

Constructor(a, g) ==
    IF a.variant \in SingleShotVariants \cup RecurrentVariants
    THEN SingleShotInit(a, g)
    ELSE IF a.variant = "ConvergedInhibition" THEN ConvergedInit(a)
    ELSE IF a.variant \in FrozenVariants THEN FrozenInit(a, g)
    ELSE ParametrizedInit(a)

ConstructorArgs ==
    [variant : Variants, scope : Scopes, width : Widths, damp : Damps,
     in_channels : Channels, pad : Pads, self_connection : BOOLEAN,
     learn_weights : BOOLEAN]

\* A constructor call.  learn_weights is an argument of SingleShotInhibition
\* only.
Construct ==
    /\ phase = "none"
    /\ \E a \in ConstructorArgs :
        /\ a.variant # "SingleShotInhibition" => a.learn_weights = FALSE
        /\ LET b == Constructor(a, scope_global)
           IN  /\ args' = a
               /\ error' = b.error
               /\ op' = b.op
               /\ ctor_inversions' = b.inversions
               /\ phase' = IF b.error = "" THEN "ready" ELSE "failed"
    /\ UNCHANGED <<scope_global, frame, call>>

\* ------------------------------------------------------------------ forward
\* Variants of the code with one plausible slip each; the properties below
\* are checked to tell them from the code.

\* The Toeplitz matrix is built from the kernel as constructed, not from the
\* parameter's current value.
SingleShotForward_StaleKernel(o, x) ==
    LET tpl == Toeplitz(o.is_circular, make_filter(args, scope_global),
                        o.in_channels)
        conv == convolve_3d_toeplitz(Rat(tpl, 1), x)
    IN  IF conv.status # "ok"
        THEN Outcome(conv.status, x, <<>>, 1, 0, 1, 0, o)
        ELSE Outcome("ok", x,
                     IF o.self_connection THEN conv.num
                     ELSE VecAdd(x, conv.num),
                     1, 0, 1, 0, o)

\* The input is never added back.
SingleShotForward_NoSkip(o, x) ==
    LET tpl == Toeplitz(o.is_circular, o.inhibition_filter, o.in_channels)
        conv == convolve_3d_toeplitz(Rat(tpl, 1), x)
    IN  IF conv.status # "ok"
        THEN Outcome(conv.status, x, <<>>, 1, 0, 1, 0, o)
        ELSE Outcome("ok", x, conv.num, 1, 0, 1, 0, o)

\* The matrix is sized by the input's channel count, not by in_channels.
SingleShotForward_InferChannels(o, x) ==
    LET tpl == Toeplitz(o.is_circular, o.inhibition_filter, Len(x))
        conv == convolve_3d_toeplitz(Rat(tpl, 1), x)
    IN  IF conv.status # "ok"
        THEN Outcome(conv.status, x, <<>>, 1, 0, 1, 0, o)
        ELSE Outcome("ok", x,
                     IF o.self_connection THEN conv.num
                     ELSE VecAdd(x, conv.num),
                     1, 0, 1, 0, o)

\* SingleShotInhibition.forward (inherited by SingleShotGaussianChannelFilter)
SingleShotForward(o, x) ==
    LET tpl == Toeplitz(o.is_circular, o.inhibition_filter, o.in_channels)
        conv == convolve_3d_toeplitz(Rat(tpl, 1), x)
    IN  IF conv.status # "ok"
        THEN Outcome(conv.status, x, <<>>, 1, 0, 1, 0, o)
        ELSE Outcome("ok", x,
                     IF o.self_connection THEN conv.num
                     ELSE VecAdd(x, conv.num),
                     1, 0, 1, 0, o)

\* The inverse of the first call is kept in tpl_inv and reused.
ConvergedForward_Cached(o, x) ==
    LET tpl == Toeplitz(o.is_circular, o.inhibition_filter, o.in_channels)
        fresh == inverse(MatSub(Eye(o.in_channels), tpl))
        cached == o.tpl_inv # NoMatrix
        tpl_inv == IF cached
                   THEN [status |-> "ok", num |-> o.tpl_inv.num,
                         den |-> o.tpl_inv.den]
                   ELSE fresh
        conv == convolve_3d_toeplitz(Rat(tpl_inv.num, tpl_inv.den), x)
        n == IF cached THEN 0 ELSE 1
        self == IF tpl_inv.status = "ok"
                THEN [o EXCEPT !.tpl_inv = Rat(tpl_inv.num, tpl_inv.den)]
                ELSE o
    IN  IF tpl_inv.status # "ok"
        THEN Outcome(tpl_inv.status, x, <<>>, 1, n, n, 0, self)
        ELSE IF conv.status # "ok"
        THEN Outcome(conv.status, x, <<>>, 1, n, n, 0, self)
        ELSE Outcome("ok", x, conv.num, conv.den, n, n, 0, self)

\* A singular (I - T) is caught and the iterative update is used instead.
ConvergedForward_Fallback(o, x) ==
    LET tpl == Toeplitz(o.is_circular, o.inhibition_filter, o.in_channels)
        tpl_inv == inverse(MatSub(Eye(o.in_channels), tpl))
        conv == convolve_3d_toeplitz(Rat(tpl_inv.num, tpl_inv.den), x)
        once == convolve_3d_toeplitz(Rat(tpl, 1), x)
    IN  IF tpl_inv.status # "ok"
        THEN IF once.status # "ok"
             THEN Outcome(once.status, x, <<>>, 1, 1, 1, 0, o)
             ELSE Outcome("ok", x, VecAdd(x, once.num), 1, 1, 1, 1, o)
        ELSE IF conv.status # "ok"
        THEN Outcome(conv.status, x, <<>>, 1, 1, 1, 0, o)
        ELSE Outcome("ok", x, conv.num, conv.den, 1, 1, 0, o)

\* ConvergedInhibition.forward
ConvergedForward(o, x) ==
    LET tpl == Toeplitz(o.is_circular, o.inhibition_filter, o.in_channels)
        tpl_inv == inverse(MatSub(Eye(o.in_channels), tpl))
        conv == convolve_3d_toeplitz(Rat(tpl_inv.num, tpl_inv.den), x)
    IN  IF tpl_inv.status # "ok"
        THEN Outcome(tpl_inv.status, x, <<>>, 1, 1, 1, 0, o)
        ELSE IF conv.status # "ok"
        THEN Outcome(conv.status, x, <<>>, 1, 1, 1, 0, o)
        ELSE Outcome("ok", x, conv.num, conv.den, 1, 1, 0, o)

\* The frozen forward builds T and inverts again, as the trainable one does.
FrozenForward_Recompute(o, x) ==
    LET tpl == Toeplitz(o.is_circular, o.inhibition_filter, o.in_channels)
        tpl_inv == inverse(MatSub(Eye(o.in_channels), tpl))
        conv == convolve_3d_toeplitz(Rat(tpl_inv.num, tpl_inv.den), x)
    IN  IF conv.status # "ok"
        THEN Outcome(conv.status, x, <<>>, 1, 1, 1, 0, o)
        ELSE Outcome("ok", x, conv.num, conv.den, 1, 1, 0, o)

\* ConvergedFrozenInhibition.forward (inherited by the Gaussian subclass)
FrozenForward(o, x) ==
    LET conv == convolve_3d_toeplitz(o.tpl_inv, x)
    IN  IF conv.status # "ok"
        THEN Outcome(conv.status, x, <<>>, 1, 0, 0, 0, o)
        ELSE Outcome("ok", x, conv.num, conv.den, 0, 0, 0, o)

\* The kernel's length is the module-level `scope`, as in _make_filter.
ParametrizedForward_GlobalScope(o, x) ==
    LET len == IF scope_global = <<>> THEN o.scope ELSE scope_global[1]
        inhibition_filter == ricker(len, o.width, o.damp, o.self_connection)
        tpl == Toeplitz(o.is_circular, inhibition_filter, o.in_channels)
        tpl_inv == inverse(MatSub(Eye(o.in_channels), tpl))
        conv == convolve_3d_toeplitz(Rat(tpl_inv.num, tpl_inv.den), x)
    IN  IF tpl_inv.status # "ok"
        THEN Outcome(tpl_inv.status, x, <<>>, 1, 1, 1, 0, o)
        ELSE IF conv.status # "ok"
        THEN Outcome(conv.status, x, <<>>, 1, 1, 1, 0, o)
        ELSE Outcome("ok", x, conv.num, conv.den, 1, 1, 0, o)

\* ParametrizedInhibition.forward
ParametrizedForward(o, x) ==
    LET inhibition_filter ==
            ricker(o.scope, o.width, o.damp, o.self_connection)
        tpl == Toeplitz(o.is_circular, inhibition_filter, o.in_channels)
        tpl_inv == inverse(MatSub(Eye(o.in_channels), tpl))
        conv == convolve_3d_toeplitz(Rat(tpl_inv.num, tpl_inv.den), x)
    IN  IF tpl_inv.status # "ok"
        THEN Outcome(tpl_inv.status, x, <<>>, 1, 1, 1, 0, o)
        ELSE IF conv.status # "ok"
        THEN Outcome(conv.status, x, <<>>, 1, 1, 1, 0, o)
        ELSE Outcome("ok", x, conv.num, conv.den, 1, 1, 0, o)

ForwardOf(o, x) ==
    IF o.variant \in SingleShotVariants THEN SingleShotForward(o, x)
    ELSE IF o.variant = "ConvergedInhibition" THEN ConvergedForward(o, x)
    ELSE IF o.variant \in FrozenVariants THEN FrozenForward(o, x)
    ELSE ParametrizedForward(o, x)

\* A forward call of a variant without a loop.
Forward ==
    /\ phase = "ready"
    /\ frame.pc = "idle"
    /\ call.status = "none"
    /\ op.variant \notin RecurrentVariants
    /\ \E x \in Tensors :
        LET r == ForwardOf(op, x)
        IN  /\ call' = CallOf(r)
            /\ op' = r.self
    /\ UNCHANGED <<scope_global, phase, args, error, ctor_inversions, frame>>

\* RecurrentGaussianChannelFilter.forward, up to the loop: the Toeplitz
\* matrix is built and the input is cloned.
RecurrentEnter(o, x) ==
    [pc |-> "loop", x |-> x, given |-> x,
     tpl |-> Rat(Toeplitz(o.is_circular, o.inhibition_filter, o.in_channels), 1),
     y |-> x, y_is_x |-> FALSE, i |-> 0]

\* The loop stops as soon as an update would leave the iterate unchanged.
LoopContinues_UntilConverged(f) ==
    /\ f.i < RecurrentSteps
    /\ \/ f.i = 0
       \/ Len(f.tpl.num) # Len(f.y)
       \/ VecAdd(f.x, MatVec(f.tpl.num, f.y)) # f.y

\* for _ in range(10)
LoopContinues(f) == f.i < RecurrentSteps

\* The loop body convolves the input, not the iterate.
LoopBody_ConvolvesInput(f) ==
    LET inhibited == convolve_3d_toeplitz(f.tpl, f.x)
    IN  IF inhibited.status # "ok"
        THEN [f EXCEPT !.pc = inhibited.status]
        ELSE [f EXCEPT !.y = VecAdd(f.x, inhibited.num), !.y_is_x = FALSE,
                       !.i = f.i + 1]

\* The sum is accumulated in place in the caller's tensor:
\* activations += inhibited; inhibited_activations = activations.
LoopBody_InPlace(f) ==
    LET inhibited == convolve_3d_toeplitz(f.tpl, f.y)
        sum == VecAdd(f.x, inhibited.num)
    IN  IF inhibited.status # "ok"
        THEN [f EXCEPT !.pc = inhibited.status]
        ELSE [f EXCEPT !.x = sum, !.y = sum, !.y_is_x = TRUE, !.i = f.i + 1]

\* The loop body: inhibited = convolve(tpl, y); y = activations + inhibited.
\* The name inhibited_activations is rebound to the sum, a new tensor.
LoopBody(f) ==
    LET inhibited == convolve_3d_toeplitz(f.tpl, f.y)
    IN  IF inhibited.status # "ok"
        THEN [f EXCEPT !.pc = inhibited.status]
        ELSE [f EXCEPT !.y = VecAdd(f.x, inhibited.num), !.y_is_x = FALSE,
                       !.i = f.i + 1]

RecurrentBegin ==
    /\ phase = "ready"
    /\ frame.pc = "idle"
    /\ call.status = "none"
    /\ op.variant \in RecurrentVariants
    /\ \E x \in Tensors : frame' = RecurrentEnter(op, x)
    /\ UNCHANGED call
    /\ UNCHANGED <<scope_global, phase, args, error, ctor_inversions, op>>

RecurrentStep ==
    /\ frame.pc = "loop"
    /\ LoopContinues(frame)
    /\ frame' = LoopBody(frame)
    /\ UNCHANGED <<scope_global, phase, args, error, ctor_inversions, op, call>>

\* return inhibited_activations
RecurrentReturn ==
    /\ frame.pc = "loop"
    /\ ~LoopContinues(frame)
    /\ call' = [status |-> "ok", x |-> frame.given, x_after |-> frame.x,
                alias |-> frame.y_is_x, num |-> frame.y, den |-> 1,
                inversions |-> 0, builds |-> 1, updates |-> frame.i]
    /\ frame' = NoFrame
    /\ UNCHANGED <<scope_global, phase, args, error, ctor_inversions, op>>

\* The shape error of the loop's first convolution leaves forward.
RecurrentRaise ==
    /\ frame.pc \notin {"idle", "loop"}
    /\ call' = [status |-> frame.pc, x |-> frame.given, x_after |-> frame.x,
                alias |-> FALSE, num |-> <<>>, den |-> 1,
                inversions |-> 0, builds |-> 1, updates |-> frame.i]
    /\ frame' = NoFrame
    /\ UNCHANGED <<scope_global, phase, args, error, ctor_inversions, op>>

\* The caller takes the outcome of the finished call; the operator is idle
\* until the next call or optimizer step.
Release ==
    /\ call.status # "none"
    /\ call' = NoCall
    /\ UNCHANGED <<scope_global, phase, args, error, ctor_inversions, op, frame>>

\* ------------------------------------------------------------ optimizer step
\* The parameters the optimizer updates: those registered with
\* register_parameter whose requires_grad is set.
TrainsKernel(o) ==
    /\ o.variant \in SingleShotVariants \cup RecurrentVariants
                        \cup {"ConvergedInhibition"}
    /\ o.requires_grad

TrainsScalars(o) == o.variant = "ParametrizedInhibition" /\ o.requires_grad

\* An optimizer step between two forward calls: the trainable parameters
\* take new values.  A step moves one tap of the kernel by one unit, or sets
\* the two scalars; every kernel over TapValues is reached by a sequence of
\* steps.
OptimizerStep ==
    /\ phase = "ready"
    /\ frame.pc = "idle"
    /\ call.status = "none"
    /\ \/ /\ TrainsKernel(op)
          /\ \E k \in 1..Len(op.inhibition_filter), d \in {-1, 1} :
                /\ op.inhibition_filter[k] + d \in TapValues
                /\ op' = [op EXCEPT !.inhibition_filter[k] = @ + d]
       \/ /\ TrainsScalars(op)
          /\ \E w \in Widths, d \in Damps :
                /\ <<w, d>> # <<op.width, op.damp>>
                /\ op' = [op EXCEPT !.width = w, !.damp = d]
    /\ UNCHANGED <<scope_global, phase, args, error, ctor_inversions, frame,
                   call>>

\* ------------------------------------------------------------- specification
Init ==
    /\ scope_global \in {<<>>} \cup {<<v>> : v \in Scopes}
    /\ phase = "none"
    /\ args = NoArgs
    /\ error = ""
    /\ ctor_inversions = 0
    /\ op = NoOp
    /\ frame = NoFrame
    /\ call = NoCall

Next ==
    \/ Construct
    \/ Forward
    \/ RecurrentBegin
    \/ RecurrentStep
    \/ RecurrentReturn
    \/ RecurrentRaise
    \/ Release
    \/ OptimizerStep

Spec == Init /\ [][Next]_vars

\* ---------------------------------------------------------------- properties
\* The interaction matrix of the operator's current kernel under the boundary
\* policy it was constructed with.
CurrentT ==
    IF args.pad = "circular"
    THEN toeplitz1d_circular(op.inhibition_filter, op.in_channels)
    ELSE toeplitz1d_zero(op.inhibition_filter, op.in_channels)

\* The kernel as the constructor generated it.
ConstructedKernel ==
    IF args.variant = "ConvergedInhibition"
    THEN mexican_hat(args.scope, args.damp, args.width, args.self_connection)
    ELSE make_filter(args, scope_global)

Finished(variants) ==
    /\ phase = "ready"
    /\ op.variant \in variants
    /\ call.status # "none"

Returned(variants) == Finished(variants) /\ call.status = "ok"

IsZeroVec(v) == \A k \in 1..Len(v) : v[k] = 0
IsZeroMat(M) == \A r \in 1..Len(M) : IsZeroVec(M[r])

RECURSIVE MatPowVec(_, _, _)
\* T^k v
MatPowVec(T, v, k) == IF k = 0 THEN v ELSE MatVec(T, MatPowVec(T, v, k - 1))

RECURSIVE PowerSum(_, _, _)
\* sum over k = 0..n of T^k x
PowerSum(T, x, n) ==
    IF n = 0 THEN x ELSE VecAdd(PowerSum(T, x, n - 1), MatPowVec(T, x, n))

\* T^k = 0
PowerVanishes(T, k) ==
    \A c \in 1..Len(T) : IsZeroVec(MatPowVec(T, Eye(Len(T))[c], k))

\* C1: a single-shot forward(x) returns Mix(T, x) when self_connection is set
\* and x + Mix(T, x) when it is not, T being the matrix of the kernel's value
\* at the time of the call under the configured boundary policy; it builds T
\* in that call.
C1_SingleShotOutput ==
    Returned(SingleShotVariants) =>
        /\ call.den = 1
        /\ call.builds = 1
        /\ Len(call.num) = Len(call.x)
        /\ \A r \in 1..Len(call.x) :
              call.num[r] =
                  (IF args.self_connection THEN 0 ELSE call.x[r])
                  + SumTo([c \in 1..Len(call.x) |-> CurrentT[r][c] * call.x[c]],
                          Len(call.x))

\* A single-shot call that returned after the optimizer changed the kernel,
\* with an input the current matrix does not map to zero.
C1_Witness ==
    /\ Returned(SingleShotVariants)
    /\ op.inhibition_filter # ConstructedKernel
    /\ ~IsZeroVec(MatVec(CurrentT, call.x))
    /\ CurrentT # Toeplitz(op.is_circular, ConstructedKernel, op.in_channels)

\* C2: every ConvergedInhibition.forward(x) builds T from the kernel's value
\* at the time of the call, inverts once, and returns the y with y = x + T y.
C2_ConvergedFixedPoint ==
    Returned({"ConvergedInhibition"}) =>
        /\ call.den # 0
        /\ call.builds = 1
        /\ call.inversions = 1
        /\ Len(call.num) = Len(call.x)
        /\ call.num = VecAdd(VecScale(call.den, call.x),
                             MatVec(CurrentT, call.num))

\* A converged call that returned after the optimizer changed the kernel, with
\* an output that differs from the input.
C2_Witness ==
    /\ Returned({"ConvergedInhibition"})
    /\ op.inhibition_filter # ConstructedKernel
    /\ CurrentT # Toeplitz(op.is_circular, ConstructedKernel, op.in_channels)
    /\ call.num # VecScale(call.den, call.x)

\* C3: the frozen variants invert exactly once, in the constructor; the cached
\* inverse stays the inverse of I - T of the constructed kernel; every forward
\* returns Mix(cached inverse, x) and neither builds T nor inverts.
C3_FrozenInverse ==
    (phase = "ready" /\ op.variant \in FrozenVariants) =>
        LET M == MatSub(Eye(args.in_channels),
                        Toeplitz(args.pad = "circular", ConstructedKernel,
                                 args.in_channels))
        IN  /\ ctor_inversions = 1
            /\ Det(M) # 0
            /\ op.tpl_inv = Rat(Adj(M), Det(M))
            /\ call.status # "none" =>
                  /\ call.inversions = 0
                  /\ call.builds = 0
            /\ call.status = "ok" =>
                  /\ call.num = MatVec(op.tpl_inv.num, call.x)
                  /\ call.den = op.tpl_inv.den

\* A frozen operator whose forward returned an output that differs from the
\* input.
C3_Witness ==
    /\ Returned(FrozenVariants)
    /\ ctor_inversions = 1
    /\ call.num # VecScale(call.den, call.x)

\* C4: the recurrent forward builds T once, starts from y0 = x and applies
\* y <- x + Mix(T, y) exactly RecurrentSteps = 10 times, whatever x and T are
\* and whether or not the iterate still changes; it returns the sum over
\* k = 0..10 of T^k x.
C4_RecurrentFixedBudget ==
    /\ frame.pc = "loop" =>
          /\ frame.i <= RecurrentSteps
          /\ frame.i < RecurrentSteps => ENABLED RecurrentStep
          /\ frame.tpl = Rat(CurrentT, 1)
          /\ frame.y = PowerSum(CurrentT, frame.x, frame.i)
    /\ Returned(RecurrentVariants) =>
          /\ call.updates = 10
          /\ call.builds = 1
          /\ call.den = 1
          /\ call.num = PowerSum(CurrentT, call.x, 10)

\* A recurrent call that returned although its iterate had stopped changing
\* before the last update.
C4_Witness ==
    /\ Returned(RecurrentVariants)
    /\ call.updates = RecurrentSteps
    /\ ~IsZeroVec(call.x)
    /\ ~IsZeroMat(CurrentT)
    /\ PowerSum(CurrentT, call.x, 1) # call.x
    /\ PowerSum(CurrentT, call.x, 2) = PowerSum(CurrentT, call.x, 1)

\* What ConvergedInhibition.forward(x) returns for an operator with the given
\* kernel and the configuration of op.
ConvergedWith(kernel, x) ==
    CallOf(ConvergedForward(
        [op EXCEPT !.variant = "ConvergedInhibition",
                   !.inhibition_filter = kernel], x))

\* C5: the parametric variant stores no kernel; whatever values the optimizer
\* gave width and damp, forward(x) is the converged solve for the kernel
\* generated from (scope, width, damp, self_connection): the same outcome as
\* a ConvergedInhibition holding that kernel, and y = x + T y when it returns.
C5_ParametrizedIsConverged ==
    (phase = "ready" /\ op.variant = "ParametrizedInhibition") =>
        LET kernel == ricker(args.scope, op.width, op.damp,
                             args.self_connection)
            T == Toeplitz(args.pad = "circular", kernel, args.in_channels)
        IN  /\ op.inhibition_filter = <<>>
            /\ op = [Attributes(args, FALSE, <<>>, TRUE, NoMatrix)
                       EXCEPT !.width = op.width, !.damp = op.damp]
            /\ call.status # "none" => call = ConvergedWith(kernel, call.x)
            /\ call.status = "ok" =>
                  call.num = VecAdd(VecScale(call.den, call.x),
                                    MatVec(T, call.num))

\* A parametric call that returned after the optimizer changed both scalars,
\* with an output that differs from the input.
C5_Witness ==
    /\ Returned({"ParametrizedInhibition"})
    /\ op.width # args.width
    /\ op.damp # args.damp
    /\ call.num # VecScale(call.den, call.x)

C7_ZeroMatrixIsIdentity ==
    (Returned(SingleShotVariants) /\ IsZeroMat(CurrentT)) => call.num = call.x

\* C7, amended: when T is the zero matrix, single-shot forward(x) is x if
\* self_connection is false (either boundary policy); if self_connection is
\* true it is Mix(T, x), the zero tensor.
C7_ZeroMatrixOutput ==
    (Returned(SingleShotVariants) /\ IsZeroMat(CurrentT)) =>
        /\ call.den = 1
        /\ call.num = IF args.self_connection THEN ZeroVec(Len(call.x))
                      ELSE call.x

\* A single-shot call without self-connection that returned for a zero
\* kernel (damp = 0) and an input that is not zero.
C7_Witness ==
    /\ Returned(SingleShotVariants)
    /\ IsZeroMat(CurrentT)
    /\ args.damp = 0
    /\ ~args.self_connection
    /\ ~IsZeroVec(call.x)

\* C8: a constructor call with a pad other than "circular" or "zeros" raises
\* (the assertion fails) and leaves no operator; no operator of any variant
\* is ready with an unsupported pad.
C8_PadRejected ==
    /\ phase = "ready" => args.pad \in SupportedPads
    /\ (phase # "none" /\ args.pad \notin SupportedPads) =>
          /\ phase = "failed"
          /\ error = "AssertionError"
          /\ op = NoOp

\* The constructor of the parametric variant was called with pad = "reflect"
\* and raised.
C8_Witness ==
    /\ phase = "failed"
    /\ error = "AssertionError"
    /\ args.pad = "reflect"
    /\ args.variant = "ParametrizedInhibition"

\* The kernel the operator's forward uses now, and I - T for it.
KernelNow ==
    IF op.variant = "ParametrizedInhibition"
    THEN ricker(op.scope, op.width, op.damp, op.self_connection)
    ELSE op.inhibition_filter

Inverted ==
    MatSub(Eye(op.in_channels),
           Toeplitz(op.is_circular, KernelNow, op.in_channels))

Inverting == {"ConvergedInhibition", "ParametrizedInhibition"}

\* C9: a forward call of ConvergedInhibition or ParametrizedInhibition made
\* while (I - T) is singular ends with the inversion error: it returns no
\* output, applies no iterative update, and leaves the operator's attributes
\* (kernel, scalars) as they were.
C9_SingularIsFatal ==
    [][(/\ phase = "ready"
        /\ op.variant \in Inverting
        /\ call.status = "none"
        /\ call'.status # "none"
        /\ Det(Inverted) = 0)
       => (/\ call'.status = "singular"
           /\ call'.num = <<>>
           /\ call'.updates = 0
           /\ call'.inversions = 1
           /\ op' = op)]_vars

\* A converged call with the configured channel count that ended with the
\* inversion error, after the optimizer changed the kernel.
C9_Witness ==
    /\ Finished({"ConvergedInhibition"})
    /\ call.status = "singular"
    /\ Len(call.x) = op.in_channels
    /\ ~IsZeroVec(call.x)
    /\ op.inhibition_filter # ConstructedKernel

\* C10 as stated: with C = in_channels every forward returns an output of the
\* input's shape; with C # in_channels every forward fails with a shape error
\* and returns nothing.
C10_ShapeContract ==
    Finished(Variants) =>
        IF Len(call.x) = op.in_channels
        THEN call.status = "ok" /\ Len(call.num) = Len(call.x)
        ELSE call.status = "shape_error" /\ call.num = <<>>

\* C10, amended: ConvergedInhibition and ParametrizedInhibition invert before
\* they mix, so with a singular (I - T) their forward fails with the inversion
\* error and returns nothing, whatever C is.  Every other forward call returns
\* an output of the input's shape when C = in_channels and fails with a shape
\* error, returning nothing, when C # in_channels (single-shot included).
C10_ShapeContractUnlessSingular ==
    Finished(Variants) =>
        IF op.variant \in Inverting /\ Det(Inverted) = 0
        THEN call.status = "singular" /\ call.num = <<>>
        ELSE IF Len(call.x) = op.in_channels
        THEN call.status = "ok" /\ Len(call.num) = Len(call.x)
        ELSE call.status = "shape_error" /\ call.num = <<>>

\* A single-shot call with an input of another channel count than
\* in_channels that ended with the shape error.
C10_Witness ==
    /\ Finished(SingleShotVariants)
    /\ Len(call.x) # op.in_channels
    /\ call.status = "shape_error"
    /\ call.num = <<>>


\* The operator's kernel is as generated: no optimizer step has changed it
\* (the parametric variant generates it in every call).
KernelIsFresh ==
    \/ op.variant = "ParametrizedInhibition"
    \/ op.inhibition_filter = ConstructedKernel

\* The matrix the operator builds from its kernel now.
MatrixNow == Toeplitz(op.is_circular, KernelNow, op.in_channels)

HasZeroDiagonal(T) == \A r \in 1..Len(T) : T[r][r] = 0

C12_RecurrentKernelTrainable ==
    (phase = "ready" /\ op.variant \in RecurrentVariants) =>
        /\ op.requires_grad
        /\ TrainsKernel(op)
        /\ (frame.pc = "idle" /\ call.status = "none") => ENABLED OptimizerStep
        /\ frame.pc = "loop" =>
              frame.tpl = Rat(Toeplitz(op.is_circular, op.inhibition_filter,
                                       op.in_channels), 1)

\* The classes that keep a kernel in inhibition_filter.
KernelVariants == Variants \ {"ParametrizedInhibition"}

\* C13: for every variant that stores a kernel, the kernel created by the
\* constructor has as many taps as its scope argument says, whatever the
\* module-level name `scope` is, and the constructor does not fail for want
\* of that name.
C13_KernelLengthIsScopeArgument ==
    (phase # "none" /\ args.variant \in KernelVariants
        /\ args.pad \in SupportedPads) =>
        /\ error # "NameError"
        /\ phase = "ready" => Len(op.inhibition_filter) = args.scope

\* A step of a forward call: the call is entered, the loop advances, or the
\* call returns or raises.
ForwardStep ==
    /\ phase = "ready"
    /\ \/ frame' # frame
       \/ call.status = "none" /\ call'.status # "none"

\* C14: a forward call of any variant leaves the caller's tensor as it was
\* passed and returns another tensor; the recurrent loop never writes into
\* the input and its iterate is never the input tensor; and no step of
\* forward changes the operator's kernel, scalars or cached inverse.
C14_ForwardFrame ==
    [][ForwardStep =>
          /\ op' = op
          /\ frame'.pc # "idle" =>
                /\ frame'.x = frame'.given
                /\ ~frame'.y_is_x
          /\ call'.status # "none" => call'.x_after = call'.x
          /\ call'.status = "ok" => ~call'.alias]_vars

C14_Witness ==
    /\ Returned(RecurrentVariants)
    /\ call.updates = RecurrentSteps
    /\ call.num # call.x
    /\ call.x_after = call.x
    /\ ~call.alias
    /\ op.inhibition_filter = ConstructedKernel

=============================================================================
